---- MODULE Spec2Model ----
(***************************************************************************)
(* A model of ProjectileMotionSimulator (src/untitled.py): the trajectory  *)
(* computation calculate_trajectory and the projectile registry handlers   *)
(* add_projectile, remove_projectile, clear_all_projectiles and            *)
(* update_current_projectile.                                              *)
(*                                                                         *)
(* Arithmetic.  The program computes in IEEE doubles; the model computes   *)
(* in exact fixed point:                                                   *)
(*   time       milliseconds            (dt = 0.05 s = 50)                 *)
(*   v0, y0     whole m/s and whole m   (as the sliders step them)         *)
(*   g          tenths of m/s^2         (9.8 m/s^2 = 98)                   *)
(*   sin, cos   thousandths                                                *)
(*   velocity   mm/s                                                       *)
(*   position   1/40 mm  (40000 per metre; every sample position is an    *)
(*              exact integer in this unit)                                *)
(* math.sqrt is correctly rounded, so Sqrt rounds to the nearest integer.  *)
(***************************************************************************)
EXTENDS Integers, Sequences, FiniteSets, TLC

VARIABLES
    projectiles,            \* self.projectiles: the ordered list of projectile dicts
    current_projectile_id,  \* self.current_projectile_id: the auto-name counter
    is_animating,           \* self.is_animating
    frame,                  \* the animation's frame cursor
    status,                 \* the message last passed to update_status
    outcome,                \* how the last handler call ended: "return" or the exception raised
    op,                     \* history: the handler called last
    adds,                   \* history: add_projectile calls since the last clear
    removes,                \* history: remove_projectile calls on a non-empty list since the last clear
    autoAdds,               \* history: parameterless add_projectile calls since the last clear
    pc,                     \* position of the calculate_trajectory call under test
    args,                   \* its arguments
    result                  \* its outcome and returned points

vars == <<projectiles, current_projectile_id, is_animating, frame, status, outcome,
          op, adds, removes, autoAdds, pc, args, result>>

registryVars == <<projectiles, current_projectile_id, is_animating, frame, status,
                  outcome, op, adds, removes, autoAdds>>

callVars == <<pc, args, result>>

----------------------------------------------------------------------------
(* Bounds of the model.                                                    *)

MaxProjectiles == 2

MaxAdds == 9

MaxSimAdds == 2

MaxSamples == 100

----------------------------------------------------------------------------
(* calculate_trajectory                                                    *)

dt == 50

\* math.sin(math.radians(theta)), in thousandths
sin(theta) ==
    CASE theta = -30 -> -500
      [] theta = 0   -> 0
      [] theta = 30  -> 500
      [] theta = 45  -> 707
      [] theta = 60  -> 866
      [] theta = 90  -> 1000

\* math.cos(math.radians(theta)), in thousandths
cos(theta) ==
    CASE theta = -30 -> 866
      [] theta = 0   -> 1000
      [] theta = 30  -> 866
      [] theta = 45  -> 707
      [] theta = 60  -> 500
      [] theta = 90  -> 0

\* Newton's iteration for the integer part of the square root of n > 0,
\* from a start x that is not below it
RECURSIVE FloorSqrt(_, _)
FloorSqrt(n, x) ==
    LET y == (x + n \div x) \div 2
    IN  IF y >= x THEN x ELSE FloorSqrt(n, y)

\* math.sqrt: the integer nearest to the square root of n >= 0
Sqrt(n) ==
    IF n = 0 THEN 0
    ELSE LET start == IF n < 10000 THEN 100
                      ELSE IF n < 1000000 THEN 1000
                      ELSE IF n < 100000000 THEN 10000
                      ELSE 46340
             r     == FloorSqrt(n, start)
         IN  IF n - r * r > r THEN r + 1 ELSE r

\* v0 * math.sin(theta_rad), mm/s
vsin(v0, theta) == v0 * sin(theta)

\* v0 * math.cos(theta_rad), mm/s
vcos(v0, theta) == v0 * cos(theta)

\* (v0 sin)^2 + 2 g y0, floored at 0; (mm/s)^2
discriminant(v0, theta, g, y0) ==
    LET d == vsin(v0, theta) * vsin(v0, theta) + 2 * (g * 100) * (y0 * 1000)
    IN  IF d < 0 THEN 0 ELSE d

\* t_max = (v0 sin + sqrt(discriminant)) / g for g # 0, in ms, kept as the
\* fraction num / den so that the comparison with t is exact
t_max(v0, theta, g, y0) ==
    [num |-> 1000 * (vsin(v0, theta) + Sqrt(discriminant(v0, theta, g, y0))),
     den |-> g * 100]

\* t <= tm for the fraction tm (den # 0)
Leq(t, tm) ==
    IF tm.den > 0 THEN t * tm.den <= tm.num ELSE t * tm.den >= tm.num

\* y0 + v0 sin t - 0.5 g t^2, before the ground clamp; 1/40 mm
Parabola(v0, theta, g, y0, t) ==
    40000 * y0 + (vsin(v0, theta) * t) \div 25 - (g * (t \div 10) * (t \div 10)) \div 5

NoClampY(y) == y

\* if y < 0: y = 0
ClampY(y) == IF y < 0 THEN 0 ELSE y

\* one pass of the loop body: the sample [t, x, y, vx, vy, speed]
Sample(v0, theta, g, y0, t) ==
    LET vx == vcos(v0, theta)
        vy == vsin(v0, theta) - (g * t) \div 10
    IN  [t     |-> t,
         x     |-> (vcos(v0, theta) * t) \div 25,
         y     |-> ClampY(Parabola(v0, theta, g, y0, t)),
         vx    |-> vx,
         vy    |-> vy,
         speed |-> Sqrt(vx * vx + vy * vy)]

\* t < tm for the fraction tm (den # 0)
Less(t, tm) ==
    IF tm.den > 0 THEN t * tm.den < tm.num ELSE t * tm.den > tm.num

StrictLoopTest(t, tm) == Less(t, tm)

\* while t <= t_max
LoopTest(t, tm) == Leq(t, tm)

\* the number of passes of the while loop: t = 0, then t += dt after each pass,
\* so pass k (from 0) runs at t = k * dt, and the loop ends at the first test that fails
Passes(tm) ==
    CHOOSE n \in 0..MaxSamples :
        /\ ~LoopTest(n * dt, tm)
        /\ \A k \in 0..(n - 1) : LoopTest(k * dt, tm)

\* the while loop: points.append([t, x, y, vx, vy, speed]) once per pass
TimeLoop(v0, theta, g, y0) ==
    LET passes == Passes(t_max(v0, theta, g, y0))
    IN  [k \in 1..passes |-> Sample(v0, theta, g, y0, (k - 1) * dt)]

\* the call's outcome: the division by g raises ZeroDivisionError for g = 0,
\* otherwise the list of points is returned
calculate_trajectory(v0, theta, g, y0) ==
    IF g = 0
    THEN [outcome |-> "ZeroDivisionError", points |-> <<>>]
    ELSE [outcome |-> "return", points |-> TimeLoop(v0, theta, g, y0)]

----------------------------------------------------------------------------
(* The registry: __init__ and the four handlers.                           *)
(*                                                                         *)
(* A projectile is the dict add_projectile builds, without the two plot    *)
(* handles 'trajectory_line' and 'point', and with one history field,      *)
(* born: the number of add_projectile calls since the last clear that came *)
(* before the one that made it.  A list index i of the program is i + 1    *)
(* here.  update_projectile_list only reads the list, and the text of      *)
(* clear_plot is not part of the source at hand: neither is modelled.      *)

available_colors ==
    <<"#3498DB", "#E74C3C", "#2ECC71", "#F39C12",
      "#9B59B6", "#1ABC9C", "#D35400", "#C0392B">>

default_params ==
    [v0 |-> 20, theta |-> 45, g |-> 98, y0 |-> 0,
     color |-> "#3498DB", name |-> "Projectile"]

\* params=None, and params given
None == <<>>

Some(params) == <<params>>

NoArgs == [v0 |-> 0, theta |-> 0, g |-> 0, y0 |-> 0]

NoResult == [outcome |-> "none", points |-> <<>>]

InitRegistry ==
    /\ projectiles = <<>>
    /\ current_projectile_id = 0
    /\ is_animating = FALSE
    /\ frame = 0
    /\ status = "Ready"
    /\ outcome = "return"
    /\ op = "init"
    /\ adds = 0
    /\ removes = 0
    /\ autoAdds = 0

Init ==
    /\ InitRegistry
    /\ pc = "idle"
    /\ args = NoArgs
    /\ result = NoResult

AutoParamsOffByOne(c) ==
    [default_params EXCEPT
        !.name  = "Projectile_" \o ToString(c),
        !.color = available_colors[((c + 1) % Len(available_colors)) + 1]]

\* the params of a parameterless add, made at the counter value c
AutoParams(c) ==
    [default_params EXCEPT
        !.name  = "Projectile_" \o ToString(c),
        !.color = available_colors[(c % Len(available_colors)) + 1]]

\* the dict of a new projectile, made when the list is ps
NewProjectile(ps, params, stamp) ==
    [id     |-> Len(ps),
     name   |-> params.name,
     v0     |-> params.v0,
     theta  |-> params.theta,
     g      |-> params.g,
     y0     |-> params.y0,
     color  |-> params.color,
     points |-> <<>>,
     born   |-> stamp]

PushFront(ps, projectile) == <<projectile>> \o ps

\* self.projectiles.append(projectile)
Push(ps, projectile) == Append(ps, projectile)

PopFirst(ps) == SubSeq(ps, 2, Len(ps))

\* self.projectiles.pop(), of a non-empty list
Pop(ps) == SubSeq(ps, 1, Len(ps) - 1)

\* self.projectiles[-1]
Last(ps) == ps[Len(ps)]

\* current.update({...}): the six keys replaced, the others kept
Updated(current, w) ==
    [current EXCEPT !.v0 = w.v0, !.theta = w.theta, !.g = w.g, !.y0 = w.y0,
                    !.name = w.name, !.color = w.color]

add_projectile(params) ==
    LET auto       == params = None
        p          == IF auto THEN AutoParams(current_projectile_id) ELSE params[1]
        projectile == NewProjectile(projectiles, p, adds)
    IN  /\ current_projectile_id' =
              IF auto THEN current_projectile_id + 1 ELSE current_projectile_id
        /\ projectiles' = Push(projectiles, projectile)
        /\ status' = "Added " \o projectile.name
        /\ outcome' = "return"
        /\ op' = IF auto THEN "add" ELSE "add_params"
        /\ adds' = adds + 1
        /\ autoAdds' = IF auto THEN autoAdds + 1 ELSE autoAdds
        /\ UNCHANGED <<removes, is_animating, frame, callVars>>

remove_projectile_decrementing ==
    /\ IF projectiles # <<>>
       THEN /\ projectiles' = Pop(projectiles)
            /\ status' = "Removed " \o Last(projectiles).name
            /\ removes' = removes + 1
            /\ current_projectile_id' = current_projectile_id - 1
       ELSE /\ status' = "No projectiles to remove"
            /\ UNCHANGED <<projectiles, removes, current_projectile_id>>
    /\ outcome' = "return"
    /\ op' = "remove"
    /\ UNCHANGED <<adds, autoAdds, is_animating, frame, callVars>>

remove_projectile ==
    /\ IF projectiles # <<>>
       THEN /\ projectiles' = Pop(projectiles)
            /\ status' = "Removed " \o Last(projectiles).name
            /\ removes' = removes + 1
       ELSE /\ status' = "No projectiles to remove"
            /\ UNCHANGED <<projectiles, removes>>
    /\ outcome' = "return"
    /\ op' = "remove"
    /\ UNCHANGED <<current_projectile_id, adds, autoAdds, is_animating, frame, callVars>>

clear_all_projectiles ==
    /\ projectiles' = <<>>
    /\ current_projectile_id' = 0
    /\ status' = "All projectiles cleared"
    /\ outcome' = "return"
    /\ op' = "clear"
    /\ adds' = 0
    /\ removes' = 0
    /\ autoAdds' = 0
    /\ UNCHANGED <<is_animating, frame, callVars>>

update_current_projectile_unguarded(w) ==
    /\ IF projectiles # <<>>
       THEN /\ projectiles' =
                  [projectiles EXCEPT ![Len(projectiles)] = Updated(Last(projectiles), w)]
            /\ status' = "Updated " \o w.name
            /\ outcome' = "return"
       ELSE /\ outcome' = "IndexError"
            /\ UNCHANGED <<projectiles, status>>
    /\ op' = "update"
    /\ UNCHANGED <<current_projectile_id, adds, removes, autoAdds, is_animating, frame,
                   callVars>>

\* w: the values of the four sliders and the two text boxes when the handler runs
update_current_projectile(w) ==
    /\ IF projectiles = <<>>
       THEN /\ status' = "No projectiles to update"
            /\ UNCHANGED projectiles
       ELSE /\ projectiles' =
                  [projectiles EXCEPT ![Len(projectiles)] = Updated(Last(projectiles), w)]
            /\ status' = "Updated " \o w.name
    /\ outcome' = "return"
    /\ op' = "update"
    /\ UNCHANGED <<current_projectile_id, adds, removes, autoAdds, is_animating, frame,
                   callVars>>

\* params of add_projectile calls that give them
ExplicitParams ==
    {[name |-> "Probe", v0 |-> 1, theta |-> 90, g |-> 98, y0 |-> 0, color |-> "#E74C3C"],
     [name |-> "Stone", v0 |-> 8, theta |-> -30, g |-> 98, y0 |-> 2, color |-> "#2ECC71"]}

\* Widget values inside the sliders' ranges (v0 1..100, theta 1..89, g 1..20,
\* y0 0..50), and two with a g the handler can only meet when the slider's
\* value was set from code (Slider.set_val does not clip): g = 0 and g < 0.
WidgetValues ==
    {[v0 |-> 10, theta |-> 30, g |-> 98, y0 |-> 0, name |-> "Projectile", color |-> "#3498DB"],
     [v0 |-> 8, theta |-> 60, g |-> 200, y0 |-> 1, name |-> "Projectile", color |-> "#9B59B6"],
     [v0 |-> 10, theta |-> 30, g |-> 0, y0 |-> 0, name |-> "Projectile", color |-> "#3498DB"],
     [v0 |-> 10, theta |-> 30, g |-> -98, y0 |-> 0, name |-> "Projectile", color |-> "#3498DB"]}

Next ==
    \/ /\ Len(projectiles) < MaxProjectiles
       /\ adds < MaxAdds
       /\ \E params \in {None} \cup {Some(e) : e \in ExplicitParams} : add_projectile(params)
    \/ remove_projectile
    \/ clear_all_projectiles
    \/ \E w \in WidgetValues : update_current_projectile(w)

Spec == Init /\ [][Next]_vars

----------------------------------------------------------------------------
(* Claims about the registry, checked under Spec.                          *)

\* C1: after any sequence of add_projectile (with or without params),
\* remove_projectile and clear_all_projectiles calls, the number of
\* projectiles equals the adds since the last clear minus the removes since
\* the last clear that met a non-empty list, and the projectiles stand in the
\* list in the order in which they were added.
C1_CountAndCreationOrder ==
    /\ Len(projectiles) = adds - removes
    /\ \A i, j \in 1..Len(projectiles) :
          i < j => projectiles[i].born < projectiles[j].born

\* C1's case: two projectiles are listed after three or more adds and a
\* remove that took one away.
C1_Witness ==
    /\ Len(projectiles) = 2
    /\ adds >= 3
    /\ removes >= 1

\* C2: in every state reached by add, remove, clear and update calls, the
\* 'id' fields read in list order are exactly 0, 1, ..., N-1.
C2_IdsAreListPositions ==
    \A i \in 1..Len(projectiles) : projectiles[i].id = i - 1

\* C2's case: two projectiles are listed right after an update, a remove
\* having gone before.
C2_Witness ==
    /\ Len(projectiles) = 2
    /\ removes >= 1
    /\ op = "update"

C5_EmptyRegistrySignalled ==
    [][(projectiles = <<>> /\ op' \in {"remove", "update"}) =>
          /\ outcome' = "EmptyRegistry"
          /\ projectiles' = <<>>
          /\ current_projectile_id' = current_projectile_id]_vars

\* C5, amended: on an empty registry remove_projectile and
\* update_current_projectile each return normally, no error reaching the
\* caller, after putting their warning in the status line ("No projectiles
\* to remove", "No projectiles to update"), and leave the (empty) list and
\* the counter unchanged.
C5_EmptyRegistryWarned ==
    [][(projectiles = <<>> /\ op' \in {"remove", "update"}) =>
          /\ outcome' = "return"
          /\ status' = IF op' = "remove" THEN "No projectiles to remove"
                                        ELSE "No projectiles to update"
          /\ projectiles' = <<>>
          /\ current_projectile_id' = current_projectile_id]_vars

\* C5's case: an update has just met an empty registry whose counter is not 0.
C5_Witness ==
    /\ op = "update"
    /\ projectiles = <<>>
    /\ status = "No projectiles to update"
    /\ current_projectile_id > 0

\* C6: the counter always equals the number of parameterless adds since the
\* last clear: each parameterless add raises it by exactly 1, an add with
\* params, a remove and an update leave it, a clear resets it to 0.  A
\* parameterless add made at the counter value c appends a projectile with
\* v0 = 20, theta = 45, g = 9.8, y0 = 0, the name "Projectile_c" and the
\* palette colour number c mod 8.
C6_AutoNameCounter ==
    /\ [](current_projectile_id = autoAdds)
    /\ [][/\ op' = "add" =>
               /\ current_projectile_id' = current_projectile_id + 1
               /\ Len(projectiles') = Len(projectiles) + 1
               /\ LET p == projectiles'[Len(projectiles')]
                      c == current_projectile_id
                  IN  /\ p.v0 = 20 /\ p.theta = 45 /\ p.g = 98 /\ p.y0 = 0
                      /\ p.name = "Projectile_" \o ToString(c)
                      /\ p.color = available_colors[(c % 8) + 1]
          /\ op' \in {"add_params", "remove", "update"} =>
               current_projectile_id' = current_projectile_id
          /\ op' = "clear" => current_projectile_id' = 0]_vars

\* C6's case: the ninth parameterless add since the last clear has just run,
\* at the counter value 8, where the palette has wrapped round to its first
\* colour.
C6_Witness ==
    /\ op = "add"
    /\ current_projectile_id = 9
    /\ Last(projectiles).name = "Projectile_8"
    /\ Last(projectiles).color = "#3498DB"

----------------------------------------------------------------------------
(* SpecSim: the registry with the simulation pass and the animation.       *)
(*                                                                         *)
(* run_simulation is wired to the Run button, but its text and that of the *)
(* animation are not part of the source at hand.  They are modelled from   *)
(* the specification: a pass that computes the points of every projectile  *)
(* with calculate_trajectory and restarts the animation at frame 0, a tick *)
(* that advances the frame cursor below max_len, and the frame function of *)
(* the AnimationScheduler.                                                 *)

\* the list after the pass over ps: the points of each projectile computed in
\* list order, up to the first projectile whose computation raises
Simulated(ps) ==
    [i \in 1..Len(ps) |->
        IF \A k \in 1..i : ps[k].g # 0
        THEN [ps[i] EXCEPT !.points =
                  calculate_trajectory(ps[i].v0, ps[i].theta, ps[i].g, ps[i].y0).points]
        ELSE ps[i]]

run_simulation ==
    /\ projectiles' = Simulated(projectiles)
    /\ IF \E i \in 1..Len(projectiles) : projectiles[i].g = 0
       THEN /\ outcome' = "ZeroDivisionError"
            /\ UNCHANGED <<is_animating, frame>>
       ELSE /\ outcome' = "return"
            /\ is_animating' = TRUE
            /\ frame' = 0
    /\ op' = "run"
    /\ UNCHANGED <<current_projectile_id, status, adds, removes, autoAdds, callVars>>

\* max over the projectiles of len(points); 0 for an empty registry
max_len(ps) ==
    IF ps = <<>> THEN 0
    ELSE CHOOSE n \in {Len(ps[i].points) : i \in 1..Len(ps)} :
             \A i \in 1..Len(ps) : Len(ps[i].points) <= n

\* the (x, y) pair of a trajectory point
Position(point) == <<point.x, point.y>>

ReportedWrapping(projectile, f) ==
    IF projectile.points = <<>> THEN <<>>
    ELSE Position(projectile.points[(f % Len(projectile.points)) + 1])

\* what frame f reports for one projectile: its point at index f, its last
\* point once its trajectory has ended, nothing while it has no points
Reported(projectile, f) ==
    IF projectile.points = <<>> THEN <<>>
    ELSE IF f < Len(projectile.points)
         THEN Position(projectile.points[f + 1])
         ELSE Position(projectile.points[Len(projectile.points)])

\* AnimationScheduler.frame(f): one report per projectile, in list order
frame_data(f) == [i \in 1..Len(projectiles) |-> Reported(projectiles[i], f)]

\* one periodic tick of the animation
Tick ==
    /\ is_animating
    /\ frame + 1 < max_len(projectiles)
    /\ frame' = frame + 1
    /\ op' = "tick"
    /\ outcome' = "return"
    /\ UNCHANGED <<projectiles, current_projectile_id, is_animating, status, adds,
                   removes, autoAdds, callVars>>

\* the inputs of SpecSim: one add with params, and widget values with a g
\* inside the slider's range and with g = 0
SimParams ==
    {[name |-> "Probe", v0 |-> 1, theta |-> 90, g |-> 98, y0 |-> 0, color |-> "#E74C3C"]}

SimWidgetValues ==
    {[v0 |-> 10, theta |-> 30, g |-> 98, y0 |-> 0, name |-> "Projectile", color |-> "#3498DB"],
     [v0 |-> 10, theta |-> 30, g |-> 0, y0 |-> 0, name |-> "Projectile", color |-> "#3498DB"]}

NextSim ==
    \/ /\ adds < MaxSimAdds
       /\ \E params \in {None} \cup {Some(e) : e \in SimParams} : add_projectile(params)
    \/ \E w \in SimWidgetValues : update_current_projectile(w)
    \/ run_simulation
    \/ Tick

SpecSim == Init /\ [][NextSim]_vars

----------------------------------------------------------------------------
(* Claims about points and the animation, checked under SpecSim.           *)

\* C3: a projectile's 'points' is never stale: in every reachable state, and
\* so right after update_current_projectile has changed v0, theta, g or y0 of
\* the last projectile, its 'points' is either empty (invalidated) or the
\* trajectory of its current (v0, theta, g, y0).  (Stated here for the
\* projectiles whose g is positive, where it already fails.)
C3_PointsNeverStale ==
    \A i \in 1..Len(projectiles) :
        LET p == projectiles[i]
        IN  p.g > 0 =>
                \/ p.points = <<>>
                \/ p.points = calculate_trajectory(p.v0, p.theta, p.g, p.y0).points

\* C10: for every frame f in [0, max_len), a projectile with len(points) > f
\* reports points[f] and one with 0 < len(points) <= f reports its last
\* point; and as the frames advance, a finished projectile's report stays
\* what it was: it does not change, wrap to an earlier point or go missing.
C10_FreezePolicy ==
    /\ [](\A f \in 0..(max_len(projectiles) - 1) :
            \A i \in 1..Len(projectiles) :
                LET points == projectiles[i].points
                    n      == Len(points)
                IN  /\ n > f => frame_data(f)[i] = <<points[f + 1].x, points[f + 1].y>>
                    /\ (0 < n /\ n <= f) => frame_data(f)[i] = <<points[n].x, points[n].y>>)
    /\ [][op' = "tick" =>
             \A i \in 1..Len(projectiles) :
                 (0 < Len(projectiles[i].points) /\ Len(projectiles[i].points) <= frame) =>
                     /\ Len(projectiles') = Len(projectiles)
                     /\ frame_data(frame)[i] # <<>>
                     /\ frame_data(frame)'[i] = frame_data(frame)[i]]_vars

\* C10's case: after a tick, the frame cursor is past the end of one
\* projectile's trajectory and inside another's.
C10_Witness ==
    /\ op = "tick"
    /\ \E i, k \in 1..Len(projectiles) :
          /\ 0 < Len(projectiles[i].points)
          /\ Len(projectiles[i].points) < frame
          /\ frame < Len(projectiles[k].points)

----------------------------------------------------------------------------
(* SpecTraj: calculate_trajectory as a pure function of its arguments.     *)

V0Args == {0, 1, 8, 20}

ThetaArgs == {-30, 45, 90}

GArgs == {-98, 0, 98}

Y0Args == {-1, 0, 2}

InitTraj ==
    /\ InitRegistry
    /\ pc = "called"
    /\ args \in [v0 : V0Args, theta : ThetaArgs, g : GArgs, y0 : Y0Args]
    /\ result = NoResult

Compute ==
    /\ pc = "called"
    /\ result' = calculate_trajectory(args.v0, args.theta, args.g, args.y0)
    /\ pc' = "done"
    /\ UNCHANGED <<args, registryVars>>

NextTraj == Compute

SpecTraj == InitTraj /\ [][NextTraj]_vars

----------------------------------------------------------------------------
(* Claims about calculate_trajectory, checked under SpecTraj.              *)

Returned == result.points

ArgsTmax == t_max(args.v0, args.theta, args.g, args.y0)

ArgsParabola(t) == Parabola(args.v0, args.theta, args.g, args.y0, t)

ValidArgs == args.v0 >= 0 /\ args.g > 0 /\ args.y0 >= 0

\* C7: every call of calculate_trajectory with g <= 0 fails with an
\* InvalidParameter error outcome: it returns no trajectory, not even an
\* empty one, and performs no division by zero.
C7_NonPositiveGravityRejected ==
    (pc = "done" /\ args.g <= 0) => result.outcome = "InvalidParameter"

\* C8: for valid arguments (v0 >= 0, g > 0, y0 >= 0, any theta) every
\* returned sample has y >= 0: where the unclamped parabola value at the
\* sample's time is negative the stored y is exactly 0, and elsewhere it is
\* the parabola value.
C8_GroundFloor ==
    (pc = "done" /\ ValidArgs) =>
        /\ result.outcome = "return"
        /\ \A i \in 1..Len(Returned) :
              /\ Returned[i].y >= 0
              /\ Returned[i].y = IF ArgsParabola(Returned[i].t) < 0
                                 THEN 0
                                 ELSE ArgsParabola(Returned[i].t)

\* C8's case: a call with valid arguments has returned samples on both sides
\* of the clamp, one of a negative parabola value stored as 0 and one of a
\* positive parabola value stored as it is.
C8_Witness ==
    /\ pc = "done"
    /\ ValidArgs
    /\ \E i \in 1..Len(Returned) :
          ArgsParabola(Returned[i].t) < 0 /\ Returned[i].y = 0
    /\ \E i \in 1..Len(Returned) :
          ArgsParabola(Returned[i].t) > 0 /\ Returned[i].y > 0

\* C9, as claimed: for g > 0 the samples are at the times 0, dt, 2 dt, ... up
\* to and including the first sample whose time is >= t_max: the last sample
\* has t >= t_max and every earlier sample has t < t_max.  (Stated here for
\* the valid arguments only, v0 >= 0 and y0 >= 0, where it already fails.)
C9_EndsAtFirstSampleNotBeforeTmax ==
    (pc = "done" /\ ValidArgs) =>
        /\ result.outcome = "return"
        /\ Len(Returned) > 0
        /\ \A i \in 1..Len(Returned) : Returned[i].t = (i - 1) * dt
        /\ ~Less(Returned[Len(Returned)].t, ArgsTmax)
        /\ \A i \in 1..(Len(Returned) - 1) : Less(Returned[i].t, ArgsTmax)

\* C9, amended: for g > 0 the samples are at the times 0, dt, 2 dt, ..., and
\* they are exactly those with t <= t_max: every sample has t <= t_max, and
\* the time that follows the last sample (0 when there is no sample) is
\* > t_max.
C9_SamplesUpToTmax ==
    (pc = "done" /\ args.g > 0) =>
        /\ result.outcome = "return"
        /\ \A i \in 1..Len(Returned) :
              Returned[i].t = (i - 1) * dt /\ Leq(Returned[i].t, ArgsTmax)
        /\ ~Leq(Len(Returned) * dt, ArgsTmax)

\* C9's case: a call with g > 0 has returned several samples, the last of
\* them strictly before t_max.
C9_Witness ==
    /\ pc = "done"
    /\ args.g > 0
    /\ Len(Returned) > 1
    /\ Less(Returned[Len(Returned)].t, ArgsTmax)

----------------------------------------------------------------------------
(* SpecAuto: the registry under parameterless adds, removes and clears     *)
(* only: no add with params and no update.                                 *)

NextAuto ==
    \/ /\ Len(projectiles) < MaxProjectiles
       /\ adds < MaxAdds
       /\ add_projectile(None)
    \/ remove_projectile
    \/ clear_all_projectiles

SpecAuto == Init /\ [][NextAuto]_vars

\* C11: in every state reached by parameterless adds, removes and clears, the
\* names of the projectiles in the registry are pairwise distinct; and an add
\* that follows a remove does not reuse the name of the projectile that the
\* remove took away.
C11_AutoNamesDistinct ==
    /\ [](\A i, j \in 1..Len(projectiles) :
            i # j => projectiles[i].name # projectiles[j].name)
    /\ [][(op = "remove" /\ op' = "add") =>
             status # "Removed " \o projectiles'[Len(projectiles')].name]_vars

\* C11's case: an add has just followed a remove that took a projectile away,
\* and two projectiles are listed.
C11_Witness ==
    /\ op = "add"
    /\ Len(projectiles) = 2
    /\ removes >= 1
    /\ current_projectile_id > Len(projectiles)
    /\ Last(projectiles).name = "Projectile_" \o ToString(current_projectile_id - 1)

====
